---- MODULE Spec2Model ----
(***************************************************************************)
(* The asynchronous memoizing cache of aiocachetools/async_cache.py:       *)
(* `cached` / `cachedmethod` wrap a coroutine function so that concurrent  *)
(* callers with the same key share one in-flight computation.              *)
(*                                                                         *)
(* Every caller is one asyncio task running the wrapper once.  A wrapper   *)
(* call runs without suspension from the key lookup up to its first        *)
(* `await shield(...)`, so that stretch is one action; the producer task,  *)
(* its done-callback (apply_task_result_to_future), the resumption of a    *)
(* shielded waiter and the cancellation of a waiter are separate steps of  *)
(* the event loop.  The wrapper is modelled for a configured cache         *)
(* (`cache is not None`); both decorators share the same wrapper body.     *)
(***************************************************************************)
EXTENDS Integers, Sequences, FiniteSets

\* Bounds of the model: the number of tasks that call the wrapper (each
\* calls once), the number of distinct keys their arguments derive, and the
\* capacity the store is configured with (cachetools `maxsize`, every entry
\* of size 1).
NumCallers == 2
NumKeys == 2
maxsize == 1

Callers == 1..NumCallers
Keys == 1..NumKeys
\* A caller starts at most one producer, so there are at most NumCallers.
Comps == 1..NumCallers

VARIABLES
    cache,      \* the store: key -> id of the future it holds, 0 when absent
    order,      \* keys of the store, least recently used first
    ncomp,      \* number of producers (tasks) created so far
    task,       \* producer task of each computation
    fut,        \* the future `f` of each computation (the SharedComputation)
    rejected,   \* computations whose publish the store refused (ValueError)
    gone,       \* how the entry of each computation left the store (a clear
                \* notes a future still Pending), NotGone if it did not
    pc,         \* position of each caller's wrapper call
    ckey,       \* key derived for the call, 0 before the call
    found,      \* what `cache[k]` returned at the lookup, 0 for KeyError
    fstate,     \* state of that future at the lookup
    src,        \* computation the caller is bound to
    how,        \* branch the call took
    res         \* what the call returned or raised

vars == <<cache, order, ncomp, task, fut, rejected, gone, pc, ckey, found, fstate, src, how, res>>

\* Key derivation (`_filtered_key`): the decoration and one call's arguments.
VARIABLES
    key_func,   \* the decorator's `key`: "hashkey" or "methodkey"
    ndefaults,  \* how many trailing parameters of the function have a default
    ignore,     \* the decorator's `ignore`: its names (str) and indices (int)
    args,       \* positional arguments of the call
    kwargs,     \* keyword arguments of the call: parameter position -> value
    key         \* what `_filtered_key` returned, NoKey before the call

kvars == <<key_func, ndefaults, ignore, args, kwargs, key>>

\* Token cache (`TokenCache`, `KeycloakTokenManager.get_token`) for the two
\* keys "<name>:access" and "<name>:refresh" of one configured name.
VARIABLES
    tnow,        \* the clock in whole seconds: `now_ts()`, `int(time.time())`
    tstore,      \* `TokenCache._cache`: token type -> entry, None when absent
    refresh_cfg, \* the name has a `refresh` section: `entry.refresh`
    nfetch,      \* number of token responses received so far
    tpc,         \* position of the get_token call: "idle" or "fetching"
    treq,        \* the get_token call waiting for its fetch: its token type,
                 \* the entry it saw in the store and the time of its lookup
    tres         \* the last completed operation: the entry it saw in the
                 \* store, the time of its lookup and what it returned

tvars == <<tnow, tstore, refresh_cfg, nfetch, tpc, treq, tres>>

\* Decoration (`cached(...)`, `cachedmethod(...)`, then `decorator(fn)`).
VARIABLES
    deco        \* the decoration so far: its stage, the factory called, the
                \* `info` and `lock` (non-null) it was given, the error raised

\* Everything outside the wrapper's own state.
aux == <<kvars, tvars, deco>>

NoDecoration ==
    [stage |-> "none", factory |-> "none", info |-> FALSE, lock |-> FALSE,
     error |-> "none"]

\* No decorator factory was called.
DecoIdle == deco = NoDecoration

TokenTypes == {"access", "refresh"}

NoToken == <<"none", 0>>

\* `None` where an entry is expected.
None == [token |-> NoToken, expires_at |-> 0, refresh_token |-> NoToken]

NoRequest == [key |-> "none", seen |-> None, at |-> 0]

NoResult ==
    [op |-> "none", key |-> "none", seen |-> None, at |-> 0,
     value |-> None, fetched |-> FALSE]

\* A manager was constructed and no token was requested.
TokenIdle ==
    /\ tnow = 1
    /\ tstore = [t \in TokenTypes |-> None]
    /\ refresh_cfg = FALSE
    /\ nfetch = 0
    /\ tpc = "idle"
    /\ treq = NoRequest
    /\ tres = NoResult

NoKey == [ok |-> FALSE, key |-> <<>>, error |-> "none"]

\* No function is decorated for key derivation.
KeyIdle ==
    /\ key_func = "hashkey"
    /\ ndefaults = 0
    /\ ignore = [str |-> {}, int |-> {}]
    /\ args = <<>>
    /\ kwargs = <<>>
    /\ key = NoKey

\* The entry of a computation is in the store, or was never published.
NotGone == "no"

\* Variant of the lookup that remembers the last computation started for a
\* key after its entry left the store.
LookupRemembers(k) ==
    IF cache[k] # 0 THEN cache[k]
    ELSE IF \E c \in Callers : how[c] = "start" /\ ckey[c] = k
    THEN CHOOSE j \in Comps :
            /\ \E c \in Callers : how[c] = "start" /\ ckey[c] = k /\ src[c] = j
            /\ \A c \in Callers : (how[c] = "start" /\ ckey[c] = k) => src[c] <= j
    ELSE 0

RemoveKey(o, k) == SelectSeq(o, LAMBDA x : x # k)

\* cachetools LRU bookkeeping: a read or a write makes the key most recent.
Touch(o, k) == Append(RemoveKey(o, k), k)

\* `future = cache[k]`, with KeyError mapped to None (0).
Lookup(k) == cache[k]

\* The order after `cache[k]`: a successful read refreshes the key.
OrderAfterLookup(k) == IF cache[k] # 0 THEN Touch(order, k) ELSE order

\* Variants of the wrapper's tests, each with one plausible slip.
IsHitNever(j) == FALSE
IsPendingNever(j) == FALSE
IsPendingOrFailed(j) == j # 0 /\ fut[j] \in {"pending", "error"}

\* `future.done() and future.exception() is None`
IsHit(j) == j # 0 /\ fut[j] = "value"

\* `future.exception()` raises CancelledError on a cancelled future
ExceptionRaises(j) == j # 0 /\ fut[j] = "cancelled"

\* `not future.done()`
IsPending(j) == j # 0 /\ fut[j] = "pending"

\* Variant of the store that admits a new key without making room.
StoreAfterSetNoEviction(o, k, j) == [cache EXCEPT ![k] = j]

\* `cache[k] = f` accepted by the store: the least recently used key makes
\* room for a new key, an existing key is overwritten in place.
StoreAfterSet(o, k, j) ==
    IF cache[k] # 0 \/ Len(o) < maxsize
    THEN [cache EXCEPT ![k] = j]
    ELSE [cache EXCEPT ![k] = j, ![Head(o)] = 0]

OrderAfterSet(o, k) ==
    IF cache[k] # 0 \/ Len(o) < maxsize
    THEN Touch(o, k)
    ELSE Touch(Tail(o), k)

\* How an entry leaves the store on an accepted `cache[k] = f`.
GoneAfterSet(o, k) ==
    IF cache[k] # 0 THEN [gone EXCEPT ![cache[k]] = "overwrite"]
    ELSE IF Len(o) < maxsize THEN gone
    ELSE [gone EXCEPT ![cache[Head(o)]] = "evict"]

\* Variants of the done-callback that lose one of its branches.
ApplyDropsCancel(t) == IF t = "error" THEN "error" ELSE "value"
ApplyDropsException(t) == IF t = "cancelled" THEN "cancelled" ELSE "value"

\* Variant of the done-callback that does nothing for a cancelled task.
ApplyLeavesCancelled(t) ==
    IF t = "cancelled" THEN "pending"
    ELSE IF t = "error" THEN "error"
    ELSE "value"

\* The done-callback: what the future becomes for a finished task.
apply_task_result_to_future(t) ==
    IF t = "cancelled" THEN "cancelled"
    ELSE IF t = "error" THEN "error"
    ELSE "value"

WrapperInit ==
    /\ cache = [k \in Keys |-> 0]
    /\ order = <<>>
    /\ ncomp = 0
    /\ task = [j \in Comps |-> "none"]
    /\ fut = [j \in Comps |-> "none"]
    /\ rejected = {}
    /\ gone = [j \in Comps |-> NotGone]
    /\ pc = [c \in Callers |-> "idle"]
    /\ ckey = [c \in Callers |-> 0]
    /\ found = [c \in Callers |-> 0]
    /\ fstate = [c \in Callers |-> "none"]
    /\ src = [c \in Callers |-> 0]
    /\ how = [c \in Callers |-> "none"]
    /\ res = [c \in Callers |-> "none"]

Init == WrapperInit /\ KeyIdle /\ TokenIdle /\ DecoIdle

\* Hit: `return future.result()`.
WrapperHit(c, k, j) ==
    /\ pc' = [pc EXCEPT ![c] = "done"]
    /\ how' = [how EXCEPT ![c] = "hit"]
    /\ src' = [src EXCEPT ![c] = j]
    /\ res' = [res EXCEPT ![c] = "value"]
    /\ order' = OrderAfterLookup(k)
    /\ UNCHANGED <<cache, gone, ncomp, task, fut, rejected>>

\* `future.exception()` raised CancelledError out of the wrapper.
WrapperRaise(c, k, j) ==
    /\ pc' = [pc EXCEPT ![c] = "done"]
    /\ how' = [how EXCEPT ![c] = "raise"]
    /\ src' = [src EXCEPT ![c] = j]
    /\ res' = [res EXCEPT ![c] = "cancelled"]
    /\ order' = OrderAfterLookup(k)
    /\ UNCHANGED <<cache, gone, ncomp, task, fut, rejected>>

\* Join: `return await shield(future)` suspends the caller.
WrapperJoin(c, k, j) ==
    /\ pc' = [pc EXCEPT ![c] = "waiting"]
    /\ how' = [how EXCEPT ![c] = "join"]
    /\ src' = [src EXCEPT ![c] = j]
    /\ order' = OrderAfterLookup(k)
    /\ UNCHANGED <<cache, gone, ncomp, task, fut, rejected, res>>

\* Variant of the miss path without the `except ValueError` guard: the
\* store's refusal is raised to the caller.
WrapperMissUnguarded(c, k) ==
    LET new == ncomp + 1
        o == OrderAfterLookup(k)
    IN  /\ ncomp' = new
        /\ task' = [task EXCEPT ![new] = "running"]
        /\ fut' = [fut EXCEPT ![new] = "pending"]
        /\ how' = [how EXCEPT ![c] = "start"]
        /\ src' = [src EXCEPT ![c] = new]
        /\ \E admit \in BOOLEAN :
              IF admit
              THEN /\ cache' = StoreAfterSet(o, k, new)
                   /\ gone' = GoneAfterSet(o, k)
                   /\ order' = OrderAfterSet(o, k)
                   /\ pc' = [pc EXCEPT ![c] = "waiting"]
                   /\ UNCHANGED <<rejected, res>>
              ELSE /\ rejected' = rejected \cup {new}
                   /\ order' = o
                   /\ pc' = [pc EXCEPT ![c] = "done"]
                   /\ res' = [res EXCEPT ![c] = "ValueError"]
                   /\ UNCHANGED <<cache, gone>>

\* Variant of the miss path that suspends before it publishes: the future is
\* not in the store when the next caller runs.
WrapperMissUnpublished(c, k) ==
    LET new == ncomp + 1
    IN  /\ ncomp' = new
        /\ task' = [task EXCEPT ![new] = "running"]
        /\ fut' = [fut EXCEPT ![new] = "pending"]
        /\ order' = OrderAfterLookup(k)
        /\ pc' = [pc EXCEPT ![c] = "waiting"]
        /\ how' = [how EXCEPT ![c] = "start"]
        /\ src' = [src EXCEPT ![c] = new]
        /\ UNCHANGED <<cache, gone, rejected, res>>

\* Variant of the miss path that publishes the future without scheduling the
\* producer task.
WrapperMissNoTask(c, k) ==
    LET new == ncomp + 1
        o == OrderAfterLookup(k)
    IN  /\ ncomp' = new
        /\ fut' = [fut EXCEPT ![new] = "pending"]
        /\ cache' = StoreAfterSet(o, k, new)
        /\ gone' = GoneAfterSet(o, k)
        /\ order' = OrderAfterSet(o, k)
        /\ pc' = [pc EXCEPT ![c] = "waiting"]
        /\ how' = [how EXCEPT ![c] = "start"]
        /\ src' = [src EXCEPT ![c] = new]
        /\ UNCHANGED <<task, rejected, res>>

\* Miss: create the task and the future, publish, `await shield(f)`.
WrapperMiss(c, k) ==
    LET new == ncomp + 1
        o == OrderAfterLookup(k)
    IN  /\ ncomp' = new
        /\ task' = [task EXCEPT ![new] = "running"]
        /\ fut' = [fut EXCEPT ![new] = "pending"]
        /\ \E admit \in BOOLEAN :
              IF admit
              THEN /\ cache' = StoreAfterSet(o, k, new)
                   /\ gone' = GoneAfterSet(o, k)
                   /\ order' = OrderAfterSet(o, k)
                   /\ UNCHANGED rejected
              ELSE /\ rejected' = rejected \cup {new}
                   /\ order' = o
                   /\ UNCHANGED <<cache, gone>>
        /\ pc' = [pc EXCEPT ![c] = "waiting"]
        /\ how' = [how EXCEPT ![c] = "start"]
        /\ src' = [src EXCEPT ![c] = new]
        /\ UNCHANGED res

\* Variant of the wrapper that swallows the binding error and runs the
\* function without caching.
WrapperBindingErrorSwallowed(c) ==
    LET new == ncomp + 1
    IN  /\ pc[c] = "idle"
        /\ ncomp' = new
        /\ task' = [task EXCEPT ![new] = "running"]
        /\ fut' = [fut EXCEPT ![new] = "pending"]
        /\ rejected' = rejected \cup {new}
        /\ pc' = [pc EXCEPT ![c] = "waiting"]
        /\ how' = [how EXCEPT ![c] = "bind"]
        /\ src' = [src EXCEPT ![c] = new]
        /\ UNCHANGED <<cache, order, gone, ckey, found, fstate, res>>

\* `k = _filtered_key(...)` raises: `sig.bind_partial` rejects the call's
\* arguments (too many positional arguments, an unknown keyword, two values
\* for one parameter) with a TypeError, which leaves the wrapper before the
\* lookup.
WrapperBindingError(c) ==
    /\ pc[c] = "idle"
    /\ pc' = [pc EXCEPT ![c] = "done"]
    /\ how' = [how EXCEPT ![c] = "bind"]
    /\ res' = [res EXCEPT ![c] = "TypeError"]
    /\ UNCHANGED <<cache, order, gone, ncomp, task, fut, rejected, ckey, found, fstate, src>>

\* One call of the wrapper by caller c with arguments deriving key k.
wrapper(c, k) ==
    /\ pc[c] = "idle"
    /\ ckey' = [ckey EXCEPT ![c] = k]
    /\ LET j == Lookup(k)
       IN  /\ found' = [found EXCEPT ![c] = j]
           /\ fstate' = [fstate EXCEPT ![c] = IF j = 0 THEN "absent" ELSE fut[j]]
           /\ IF ExceptionRaises(j) THEN WrapperRaise(c, k, j)
              ELSE IF IsHit(j) THEN WrapperHit(c, k, j)
              ELSE IF IsPending(j) THEN WrapperJoin(c, k, j)
              ELSE WrapperMiss(c, k)

\* The producer coroutine returns or raises.
TaskFinish(j, outcome) ==
    /\ task[j] = "running"
    /\ task' = [task EXCEPT ![j] = outcome]
    /\ UNCHANGED <<cache, gone, order, ncomp, fut, rejected, pc, ckey, found, fstate, src, how, res>>
    /\ UNCHANGED aux

\* The runtime cancels the producer task.
TaskCancel(j) ==
    /\ task[j] = "running"
    /\ task' = [task EXCEPT ![j] = "cancelled"]
    /\ UNCHANGED <<cache, gone, order, ncomp, fut, rejected, pc, ckey, found, fstate, src, how, res>>
    /\ UNCHANGED aux

\* Variant of the done-callback that also writes the resolved future back
\* into the store under the key of its starter.
DoneCallbackPublishes(j) ==
    LET k == CHOOSE h \in Keys : \E c \in Callers : how[c] = "start" /\ src[c] = j /\ ckey[c] = h
    IN  /\ task[j] \in {"value", "error", "cancelled"}
        /\ fut[j] = "pending"
        /\ fut' = [fut EXCEPT ![j] = apply_task_result_to_future(task[j])]
        /\ cache' = [cache EXCEPT ![k] = j]
        /\ order' = IF cache[k] # 0 THEN order ELSE Append(order, k)
        /\ UNCHANGED <<gone, ncomp, task, rejected, pc, ckey, found, fstate, src, how, res>>
        /\ UNCHANGED aux

\* The task's done-callback runs.
DoneCallback(j) ==
    /\ task[j] \in {"value", "error", "cancelled"}
    /\ fut[j] = "pending"
    /\ fut' = [fut EXCEPT ![j] = apply_task_result_to_future(task[j])]
    /\ UNCHANGED <<cache, gone, order, ncomp, task, rejected, pc, ckey, found, fstate, src, how, res>>
    /\ UNCHANGED aux

\* A caller suspended in `await shield(future)` resumes with its outcome.
Resume(c) ==
    /\ pc[c] = "waiting"
    /\ fut[src[c]] # "pending"
    /\ pc' = [pc EXCEPT ![c] = "done"]
    /\ res' = [res EXCEPT ![c] = fut[src[c]]]
    /\ UNCHANGED <<cache, gone, order, ncomp, task, fut, rejected, ckey, found, fstate, src, how>>
    /\ UNCHANGED aux

\* Variant without the shield: cancelling the waiter cancels the future.
CancelCallerUnshielded(c) ==
    /\ pc[c] = "waiting"
    /\ pc' = [pc EXCEPT ![c] = "done"]
    /\ res' = [res EXCEPT ![c] = "ccancel"]
    /\ fut' = [fut EXCEPT ![src[c]] = IF @ = "pending" THEN "cancelled" ELSE @]
    /\ UNCHANGED <<cache, gone, order, ncomp, task, rejected, ckey, found, fstate, src, how>>
    /\ UNCHANGED aux

\* Variant with the producer awaited in the starter's own task: cancelling
\* the starter cancels the producer.
CancelCallerInline(c) ==
    /\ pc[c] = "waiting"
    /\ pc' = [pc EXCEPT ![c] = "done"]
    /\ res' = [res EXCEPT ![c] = "ccancel"]
    /\ task' = IF how[c] = "start" /\ task[src[c]] = "running"
               THEN [task EXCEPT ![src[c]] = "cancelled"]
               ELSE task
    /\ UNCHANGED <<cache, gone, order, ncomp, fut, rejected, ckey, found, fstate, src, how>>
    /\ UNCHANGED aux

\* A suspended caller is cancelled (its own CancelledError, "ccancel"): the
\* shield keeps the inner future and the producer untouched.
CancelCaller(c) ==
    /\ pc[c] = "waiting"
    /\ pc' = [pc EXCEPT ![c] = "done"]
    /\ res' = [res EXCEPT ![c] = "ccancel"]
    /\ UNCHANGED <<cache, gone, order, ncomp, task, fut, rejected, ckey, found, fstate, src, how>>
    /\ UNCHANGED aux

\* Variant of the clear that also cancels the futures still Pending in the
\* store.
cache_clearCancels ==
    /\ cache' = [k \in Keys |-> 0]
    /\ order' = <<>>
    /\ gone' = [j \in Comps |->
                  IF \A k \in Keys : cache[k] # j THEN gone[j]
                  ELSE IF IsPending(j) THEN "clear-pending" ELSE "clear"]
    /\ fut' = [j \in Comps |->
                  IF (\E k \in Keys : cache[k] = j) /\ IsPending(j)
                  THEN "cancelled" ELSE fut[j]]
    /\ UNCHANGED <<ncomp, task, rejected, pc, ckey, found, fstate, src, how, res>>
    /\ UNCHANGED aux

\* `cache.clear()`
cache_clear ==
    /\ cache' = [k \in Keys |-> 0]
    /\ order' = <<>>
    /\ gone' = [j \in Comps |->
                  IF \A k \in Keys : cache[k] # j THEN gone[j]
                  ELSE IF IsPending(j) THEN "clear-pending" ELSE "clear"]
    /\ UNCHANGED <<ncomp, task, fut, rejected, pc, ckey, found, fstate, src, how, res>>
    /\ UNCHANGED aux

\* The store's time-to-use function has marked the entry of k stale.
StoreExpire(k) ==
    /\ cache[k] # 0
    /\ cache' = [cache EXCEPT ![k] = 0]
    /\ order' = RemoveKey(order, k)
    /\ gone' = [gone EXCEPT ![cache[k]] = "expire"]
    /\ UNCHANGED <<ncomp, task, fut, rejected, pc, ckey, found, fstate, src, how, res>>
    /\ UNCHANGED aux

\* Callers are numbered in the order of their calls and keys in the order of
\* their first use: every other run is one of these with the names permuted.
CallOrder(c, k) ==
    /\ \A d \in Callers : d < c => pc[d] # "idle"
    /\ \A h \in Keys : h < k => \E d \in Callers : ckey[d] = h

\* The next caller calls the wrapper.
Call(c, k) == CallOrder(c, k) /\ wrapper(c, k) /\ UNCHANGED aux

\* The next caller calls the wrapper with arguments the signature rejects.
CallUnbound(c) ==
    /\ \A d \in Callers : d < c => pc[d] # "idle"
    /\ WrapperBindingError(c)
    /\ UNCHANGED aux

Next ==
    \/ \E c \in Callers, k \in Keys : Call(c, k)
    \/ \E c \in Callers : CallUnbound(c)
    \/ \E j \in Comps, outcome \in {"value", "error"} : TaskFinish(j, outcome)
    \/ \E j \in Comps : TaskCancel(j)
    \/ \E j \in Comps : DoneCallback(j)
    \/ \E c \in Callers : Resume(c)
    \/ \E c \in Callers : CancelCaller(c)
    \/ cache_clear
    \/ \E k \in Keys : StoreExpire(k)

Spec == Init /\ [][Next]_vars

\* The scheduling the event loop provides: a done-callback that is scheduled
\* runs, and a caller whose awaited future is resolved is resumed; and the
\* producers terminate (return, raise or are cancelled).
Fairness ==
    /\ \A j \in Comps :
          WF_vars(TaskFinish(j, "value") \/ TaskFinish(j, "error") \/ TaskCancel(j))
    /\ \A j \in Comps : WF_vars(DoneCallback(j))
    /\ \A c \in Callers : WF_vars(Resume(c))

SpecLive == Init /\ [][Next]_vars /\ Fairness

(***************************************************************************)
(* Key derivation: `_filtered_key`                                         *)
(***************************************************************************)
\* Bound: the distinct contents of argument values.
NumVals == 2

\* Two unhashable objects, enough to tell an object's identity from its
\* content.
ObjectIds == {"x", "y"}

\* `sig.parameters` of the wrapped function, the `add(a, b)` of the tests;
\* under cachedmethod the first parameter is the receiver (`self`, `cls`).
parameters == <<"a", "b">>

\* Parameter positions, 1-based: position p has the Python index p - 1.
Positions == 1..Len(parameters)

\* Argument values: hashable ones, and unhashable objects (a list, a dict)
\* with their content and their identity `id(value)`.
Hashables == {<<"h", v>> : v \in 1..NumVals}
Unhashables == {<<"u", v, i>> : v \in 1..NumVals, i \in ObjectIds}
Vals == Hashables \cup Unhashables

\* A parameter that `bound.arguments` does not hold.
Missing == <<"missing">>

\* The declared default of a parameter that has one.
DefaultValue == <<"h", 1>>

\* The calls `bind_partial` accepts: positional arguments for a prefix of the
\* parameters, keyword arguments for any of the others.
PositionalArgs == UNION {[1..n -> Vals] : n \in 0..Len(parameters)}
KeywordArgs(n) == UNION {[S -> Vals] : S \in SUBSET ((n + 1)..Len(parameters))}

\* Every such call, as the pair of its positional and keyword arguments.
Calls == UNION {{<<a, kw>> : kw \in KeywordArgs(Len(a))} : a \in PositionalArgs}

\* The `ignore` tuples: names of parameters and 0-based indices.
IgnoreSets ==
    [str : SUBSET {parameters[p] : p \in Positions},
     int : SUBSET {p - 1 : p \in Positions}]

\* `_make_hashable`: a hashable value as it is, otherwise ("__id__", id(value)).
make_hashable(v) == IF v \in Hashables THEN v ELSE <<"__id__", v[3]>>

\* Variant of the binding without `bound.apply_defaults()`.
BoundWithoutDefaults(nd, a, kw) ==
    [p \in Positions |->
        IF p <= Len(a) THEN a[p]
        ELSE IF p \in DOMAIN kw THEN kw[p]
        ELSE Missing]

\* `sig.bind_partial(*args, **kwargs)` then `apply_defaults()`: the value of
\* each parameter, Missing for a parameter without default that the call
\* does not supply.
bound_arguments(nd, a, kw) ==
    [p \in Positions |->
        IF p <= Len(a) THEN a[p]
        ELSE IF p \in DOMAIN kw THEN kw[p]
        ELSE IF p > Len(parameters) - nd THEN DefaultValue
        ELSE Missing]

\* `list(bound.arguments.keys())`: the bound parameters in declaration order.
bound_names(b) == SelectSeq([p \in Positions |-> p], LAMBDA p : b[p] # Missing)

\* Variant of the exclusion set that excludes nothing.
NameIgnoresNothing(ign, b) == {}

\* The exclusion set: the names of `ignore`, and for each index of `ignore`
\* the name at that index of `bound_names`.
name_ignores(ign, b) ==
    ign.str \cup {parameters[bound_names(b)[i + 1]] :
                     i \in {x \in ign.int : x + 1 <= Len(bound_names(b))}}

\* The hashable projections of the bound, not excluded parameters, in
\* declaration order.
values(ign, b) ==
    LET keep == SelectSeq([p \in Positions |-> p],
                          LAMBDA p : b[p] # Missing
                                     /\ parameters[p] \notin name_ignores(ign, b))
    IN  [i \in 1..Len(keep) |-> make_hashable(b[keep[i]])]

\* cachetools.keys.hashkey(*values): the tuple of the values.
hashkey(vs) == [ok |-> TRUE, key |-> vs, error |-> "none"]

\* cachetools.keys.methodkey(self, *args): the tuple without its first
\* value; a TypeError when there is no value to take for `self`.
methodkey(vs) ==
    IF Len(vs) = 0 THEN [ok |-> FALSE, key |-> <<>>, error |-> "TypeError"]
    ELSE [ok |-> TRUE, key |-> Tail(vs), error |-> "none"]

\* `_filtered_key(key_func, fn, args, kwargs, ignore)`
filtered_key(kf, nd, ign, a, kw) ==
    LET vs == values(ign, bound_arguments(nd, a, kw))
    IN  IF kf = "hashkey" THEN hashkey(vs) ELSE methodkey(vs)

\* A function is decorated: `cached(key=hashkey, ignore=...)` or
\* `cachedmethod(key=methodkey, ignore=...)`.
KeyInit ==
    /\ WrapperInit
    /\ key_func \in {"hashkey", "methodkey"}
    /\ ndefaults \in 0..Len(parameters)
    /\ ignore \in IgnoreSets
    /\ args = <<>>
    /\ kwargs = <<>>
    /\ key = NoKey
    /\ TokenIdle
    /\ DecoIdle

\* The wrapper derives the key of a call: `k = _filtered_key(...)`.
KeyCall(a, kw) ==
    /\ key = NoKey
    /\ args' = a
    /\ kwargs' = kw
    /\ key' = filtered_key(key_func, ndefaults, ignore, a, kw)
    /\ UNCHANGED <<key_func, ndefaults, ignore>>
    /\ UNCHANGED <<vars, tvars, deco>>

KeyNext == \E a \in PositionalArgs : \E kw \in KeywordArgs(Len(a)) : KeyCall(a, kw)

SpecKey == KeyInit /\ [][KeyNext]_<<vars, aux>>

(***************************************************************************)
(* Token cache: `TokenCache.get` and `KeycloakTokenManager.get_token`      *)
(***************************************************************************)
\* Bounds: the clock, the expiry timestamps a response can lead to, the
\* responses received, and the (scaled) `prefetch_seconds` of the name.
MaxTime == 3
MaxExpiry == 4
MaxFetch == 2
prefetch_seconds == 1

\* `expires_at` as `_compute_expires_at` returns it: now + expires_in, the
\* token's exp claim, or now + a fallback; it can lie in the past.
ExpiryTimes == 1..MaxExpiry

\* Variant of `TokenCache.get` that forgets the expiry check.
TokenCacheGetUnchecked(store, k) == [ret |-> store[k], store |-> store]

\* `TokenCache.get(key)`: what it returns and the store it leaves.
TokenCache_get(store, k) ==
    LET entry == store[k]
    IN  IF entry = None THEN [ret |-> None, store |-> store]
        ELSE IF entry.expires_at # 0 /\ entry.expires_at <= tnow
        THEN [ret |-> None, store |-> [store EXCEPT ![k] = None]]
        ELSE [ret |-> entry, store |-> store]

\* Variant of the projection that drops nothing.
KeepsRefreshToken(e) == e

\* `{k: v for k, v in value.items() if k != "refresh_token"}`
WithoutRefreshToken(e) == [e EXCEPT !.refresh_token = NoToken]

\* A manager is constructed from a configuration.
TokenInit ==
    /\ WrapperInit
    /\ KeyIdle
    /\ DecoIdle
    /\ tnow = 1
    /\ tstore = [t \in TokenTypes |-> None]
    /\ refresh_cfg \in BOOLEAN
    /\ nfetch = 0
    /\ tpc = "idle"
    /\ treq = NoRequest
    /\ tres = NoResult

\* A second passes.
Tick ==
    /\ tnow < MaxTime
    /\ tnow' = tnow + 1
    /\ UNCHANGED <<tstore, refresh_cfg, nfetch, tpc, treq, tres>>
    /\ UNCHANGED <<vars, kvars, deco>>

\* A call of `TokenCache.get(key)` on the manager's cache.
TokenCacheGet(k) ==
    /\ tpc = "idle"
    /\ LET g == TokenCache_get(tstore, k)
       IN  /\ tstore' = g.store
           /\ tres' = [op |-> "get", key |-> k, seen |-> tstore[k], at |-> tnow,
                       value |-> g.ret, fetched |-> FALSE]
    /\ UNCHANGED <<tnow, refresh_cfg, nfetch, tpc, treq>>
    /\ UNCHANGED <<vars, kvars, deco>>

\* Variant of `get_token` without the prefetch window: an entry that has not
\* expired is returned.
get_tokenNoPrefetch(tt, force_refresh) ==
    /\ tpc = "idle"
    /\ LET g == IF force_refresh THEN [ret |-> None, store |-> tstore]
                ELSE TokenCache_get(tstore, tt)
           seen == IF force_refresh THEN None ELSE tstore[tt]
           cached == g.ret
       IN  IF cached # None
           THEN /\ tstore' = g.store
                /\ tres' = [op |-> "get_token", key |-> tt,
                            seen |-> seen, at |-> tnow,
                            value |-> IF tt = "access" THEN WithoutRefreshToken(cached)
                                      ELSE cached,
                            fetched |-> FALSE]
                /\ UNCHANGED <<tpc, treq>>
           ELSE /\ tstore' = IF tt = "access" /\ refresh_cfg
                             THEN TokenCache_get(g.store, "refresh").store
                             ELSE g.store
                /\ tpc' = "fetching"
                /\ treq' = [key |-> tt, seen |-> seen, at |-> tnow]
                /\ UNCHANGED tres
    /\ UNCHANGED <<tnow, refresh_cfg, nfetch>>
    /\ UNCHANGED <<vars, kvars, deco>>

\* `get_token(name, token_type, force_refresh)` up to its return from the
\* cache or to `await self._fetch_token(...)`.
get_token(tt, force_refresh) ==
    /\ tpc = "idle"
    /\ LET g == IF force_refresh THEN [ret |-> None, store |-> tstore]
                ELSE TokenCache_get(tstore, tt)
           seen == IF force_refresh THEN None ELSE tstore[tt]
           cached == IF /\ g.ret # None
                        /\ g.ret.expires_at # 0
                        /\ g.ret.expires_at - tnow <= prefetch_seconds
                     THEN None ELSE g.ret
       IN  IF cached # None
           THEN /\ tstore' = g.store
                /\ tres' = [op |-> "get_token", key |-> tt,
                            seen |-> seen, at |-> tnow,
                            value |-> IF tt = "access" THEN WithoutRefreshToken(cached)
                                      ELSE cached,
                            fetched |-> FALSE]
                /\ UNCHANGED <<tpc, treq>>
           ELSE /\ tstore' = IF tt = "access" /\ refresh_cfg
                             THEN TokenCache_get(g.store, "refresh").store
                             ELSE g.store
                /\ tpc' = "fetching"
                /\ treq' = [key |-> tt, seen |-> seen, at |-> tnow]
                /\ UNCHANGED tres
    /\ UNCHANGED <<tnow, refresh_cfg, nfetch>>
    /\ UNCHANGED <<vars, kvars, deco>>

\* The token endpoint answers: the rest of `get_token`. The response leads
\* to the expiry e and carries a refresh token or not.
TokenFetched(e, with_refresh) ==
    /\ tpc = "fetching"
    /\ nfetch < MaxFetch
    /\ LET n == nfetch + 1
           cache_value == [token |-> <<"access_token", n>>, expires_at |-> e,
                           refresh_token |-> IF with_refresh THEN <<"refresh_token", n>>
                                             ELSE NoToken]
           refresh_value == [token |-> <<"refresh_token", n>>, expires_at |-> e,
                             refresh_token |-> <<"refresh_token", n>>]
           stored == IF with_refresh THEN [tstore EXCEPT !["refresh"] = refresh_value]
                     ELSE tstore
       IN  /\ nfetch' = n
           /\ tstore' = [stored EXCEPT ![treq.key] = cache_value]
           /\ tres' = [op |-> "get_token", key |-> treq.key,
                       seen |-> treq.seen, at |-> treq.at,
                       value |-> WithoutRefreshToken(cache_value),
                       fetched |-> TRUE]
    /\ tpc' = "idle"
    /\ treq' = NoRequest
    /\ UNCHANGED <<tnow, refresh_cfg>>
    /\ UNCHANGED <<vars, kvars, deco>>

\* The fetch fails (HTTP error, no access_token in the response, a
\* refresh_token grant without a refresh token): get_token raises.
TokenFetchFailed ==
    /\ tpc = "fetching"
    /\ tpc' = "idle"
    /\ treq' = NoRequest
    /\ tres' = [op |-> "error", key |-> treq.key, seen |-> treq.seen, at |-> treq.at,
                value |-> None, fetched |-> FALSE]
    /\ UNCHANGED <<tnow, tstore, refresh_cfg, nfetch>>
    /\ UNCHANGED <<vars, kvars, deco>>

TokenNext ==
    \/ Tick
    \/ \E k \in TokenTypes : TokenCacheGet(k)
    \/ \E tt \in TokenTypes, force_refresh \in BOOLEAN : get_token(tt, force_refresh)
    \/ \E e \in ExpiryTimes, with_refresh \in BOOLEAN : TokenFetched(e, with_refresh)
    \/ TokenFetchFailed

SpecToken == TokenInit /\ [][TokenNext]_<<vars, aux>>

(***************************************************************************)
(* Decoration: `cached`, `cachedmethod`, `decorator`                       *)
(***************************************************************************)
\* Variant of `cached` that accepts a lock and never uses it.
cachedAcceptsLock(i, l, ign) ==
    /\ deco.stage = "none"
    /\ IF i
       THEN /\ deco' = [stage |-> "rejected", factory |-> "cached", info |-> i,
                        lock |-> l, error |-> "NotImplementedError"]
            /\ UNCHANGED kvars
       ELSE /\ deco' = [stage |-> "created", factory |-> "cached", info |-> i,
                        lock |-> l, error |-> "none"]
            /\ key_func' = "hashkey"
            /\ ignore' = ign
            /\ UNCHANGED <<ndefaults, args, kwargs, key>>
    /\ UNCHANGED <<vars, tvars>>

\* `cached(cache, key=hashkey, lock=l, info=i, ignore=ign)`: raises
\* NotImplementedError for `info` or a lock, otherwise returns the decorator.
cached(i, l, ign) ==
    /\ deco.stage = "none"
    /\ IF i \/ l
       THEN /\ deco' = [stage |-> "rejected", factory |-> "cached", info |-> i,
                        lock |-> l, error |-> "NotImplementedError"]
            /\ UNCHANGED kvars
       ELSE /\ deco' = [stage |-> "created", factory |-> "cached", info |-> i,
                        lock |-> l, error |-> "none"]
            /\ key_func' = "hashkey"
            /\ ignore' = ign
            /\ UNCHANGED <<ndefaults, args, kwargs, key>>
    /\ UNCHANGED <<vars, tvars>>

\* `cachedmethod(cache, key=methodkey, lock=l, ignore=ign)`: raises
\* NotImplementedError for a lock, otherwise returns the decorator.
cachedmethod(l, ign) ==
    /\ deco.stage = "none"
    /\ IF l
       THEN /\ deco' = [stage |-> "rejected", factory |-> "cachedmethod",
                        info |-> FALSE, lock |-> l, error |-> "NotImplementedError"]
            /\ UNCHANGED kvars
       ELSE /\ deco' = [stage |-> "created", factory |-> "cachedmethod",
                        info |-> FALSE, lock |-> l, error |-> "none"]
            /\ key_func' = "methodkey"
            /\ ignore' = ign
            /\ UNCHANGED <<ndefaults, args, kwargs, key>>
    /\ UNCHANGED <<vars, tvars>>

\* `decorator(fn)`: a TypeError unless fn is a coroutine function, otherwise
\* the wrapper of fn, whose last nd parameters have a default.
decorator(is_coroutine, nd) ==
    /\ deco.stage = "created"
    /\ IF is_coroutine
       THEN /\ deco' = [deco EXCEPT !.stage = "wrapped"]
            /\ ndefaults' = nd
       ELSE /\ deco' = [deco EXCEPT !.stage = "rejected", !.error = "TypeError"]
            /\ UNCHANGED ndefaults
    /\ UNCHANGED <<key_func, ignore, args, kwargs, key>>
    /\ UNCHANGED <<vars, tvars>>

\* A call of the wrapper, up to its key: `k = _filtered_key(...)`.
WrappedCall(a, kw) ==
    /\ deco.stage = "wrapped"
    /\ KeyCall(a, kw)

DecoInit == WrapperInit /\ KeyIdle /\ TokenIdle /\ DecoIdle

DecoNext ==
    \/ \E i, l \in BOOLEAN, ign \in IgnoreSets : cached(i, l, ign)
    \/ \E l \in BOOLEAN, ign \in IgnoreSets : cachedmethod(l, ign)
    \/ \E is_coroutine \in BOOLEAN, nd \in 0..Len(parameters) : decorator(is_coroutine, nd)
    \/ \E a \in PositionalArgs : \E kw \in KeywordArgs(Len(a)) : WrappedCall(a, kw)

SpecDecorate == DecoInit /\ [][DecoNext]_<<vars, aux>>

(***************************************************************************)
(* Vocabulary of the properties                                            *)
(***************************************************************************)
\* Caller c has returned from (or was thrown out of) the wrapper.
Returned(c) == pc[c] = "done"

\* Caller c was cancelled itself while suspended in the wrapper.
SelfCancelled(c) == res[c] = "ccancel"

\* Caller c awaited computation j (as its starter or as a joiner).
Awaited(c, j) == src[c] = j /\ how[c] \in {"start", "join"}

\* This step is caller c's call of the wrapper.
CallStep(c) == pc[c] = "idle" /\ ckey'[c] \in Keys

\* This step is the cancellation of the suspended caller c.
CancelStep(c) == pc[c] = "waiting" /\ res'[c] = "ccancel"

\* This step starts a producer for key k.
StartsProducer(k) ==
    /\ ncomp' = ncomp + 1
    /\ \E c \in Callers : CallStep(c) /\ ckey'[c] = k

\* The future of j, once resolved, carries the producer task's outcome.
TrueOutcome(j) == fut[j] # "pending" => fut[j] = task[j]

(***************************************************************************)
(* C1  Singleflight                                                        *)
(***************************************************************************)
\* C1 as stated: whenever a caller's lookup finds in the store the
\* SharedComputation another caller is bound to (so its entry was never
\* removed in between), the caller shares that computation (no second
\* execution) and both receive the same result or the same error.
C1_AsStated ==
    \A c1, c2 \in Callers :
        (c1 # c2 /\ found[c2] # 0 /\ found[c2] = src[c1]) =>
            /\ src[c2] = src[c1]
            /\ (Returned(c1) /\ Returned(c2) /\ ~SelfCancelled(c1) /\ ~SelfCancelled(c2))
                  => res[c1] = res[c2]

\* C1 amended: the same, for every caller whose lookup finds the
\* SharedComputation not yet Failed (Pending, Succeeded or Cancelled): it
\* shares the computation, the producer runs once for all of them, and the
\* callers that are not cancelled themselves receive the same outcome.
C1_Singleflight ==
    \A c1, c2 \in Callers :
        (c1 # c2 /\ found[c2] # 0 /\ found[c2] = src[c1] /\ fstate[c2] # "error") =>
            /\ src[c2] = src[c1]
            /\ how[c2] # "start"
            /\ (Returned(c1) /\ Returned(c2) /\ ~SelfCancelled(c1) /\ ~SelfCancelled(c2))
                  => res[c1] = res[c2]

\* Two concurrent callers shared one execution and both got its value.
C1_Witness ==
    \E c1, c2 \in Callers :
        /\ how[c1] = "start" /\ how[c2] = "join" /\ src[c2] = src[c1]
        /\ ckey[c1] = ckey[c2] /\ ncomp = 1
        /\ Returned(c1) /\ Returned(c2) /\ res[c1] = "value" /\ res[c2] = "value"

(***************************************************************************)
(* C2  Joiner cancellation isolation                                       *)
(***************************************************************************)
C2_Inv ==
    \A c \in Callers :
        (how[c] = "join" /\ SelfCancelled(c)) =>
            /\ TrueOutcome(src[c])
            /\ \A d \in Callers :
                  (Awaited(d, src[c]) /\ Returned(d) /\ ~SelfCancelled(d))
                      => res[d] = task[src[c]]

C2_Step ==
    \A c \in Callers :
        (CancelStep(c) /\ how[c] = "join") =>
            /\ pc'[c] = "done"
            /\ task' = task /\ fut' = fut /\ cache' = cache

\* C2: cancelling a caller that joined a Pending SharedComputation ends that
\* caller with its own cancellation and changes neither the producer task,
\* the future nor the store; the future still resolves to the producer's
\* outcome and every other caller awaiting it returns that outcome.
C2_JoinerCancelIsolated == []C2_Inv /\ [][C2_Step]_vars

\* A joiner was cancelled, the starter still got the producer's value, and
\* the entry in the store holds it.
C2_Witness ==
    \E c, d \in Callers :
        /\ how[c] = "join" /\ SelfCancelled(c)
        /\ how[d] = "start" /\ src[d] = src[c]
        /\ Returned(d) /\ res[d] = "value"
        /\ cache[ckey[c]] = src[c] /\ fut[src[c]] = "value"

(***************************************************************************)
(* C3  Starter cancellation isolation                                      *)
(***************************************************************************)
C3_Inv ==
    \A c \in Callers :
        (how[c] = "start" /\ SelfCancelled(c)) =>
            /\ TrueOutcome(src[c])
            /\ \A d \in Callers :
                  (found[d] = src[c] /\ fstate[d] = "value") =>
                      /\ how[d] = "hit" /\ src[d] = src[c]
                      /\ Returned(d) /\ res[d] = "value"

C3_Step ==
    /\ \A c \in Callers :
          (CancelStep(c) /\ how[c] = "start") =>
              task' = task /\ fut' = fut /\ cache' = cache
    /\ \A c, d \in Callers :
          (how[c] = "start" /\ SelfCancelled(c) /\ CallStep(d)
              /\ cache[ckey'[d]] = src[c] /\ fut[src[c]] = "value")
              => ncomp' = ncomp /\ res'[d] = "value"

\* C3: cancelling the caller that started the producer changes neither the
\* producer task, the future nor the store; the future resolves to the
\* producer's outcome, and a later call that finds the entry Succeeded
\* returns its value and starts no producer.
C3_StarterCancelIsolated == []C3_Inv /\ [][C3_Step]_vars

\* The starter was cancelled, the producer finished with a value, and a
\* later call was served from the entry.
C3_Witness ==
    \E c, d \in Callers :
        /\ how[c] = "start" /\ SelfCancelled(c)
        /\ task[src[c]] = "value" /\ fut[src[c]] = "value"
        /\ how[d] = "hit" /\ src[d] = src[c] /\ res[d] = "value"
        /\ ncomp = 1

(***************************************************************************)
(* C4  At most one producer while the store holds an entry                 *)
(***************************************************************************)
\* C4 as stated: no producer is started for a key in a step taken while the
\* store holds an entry for that key (so between two points without an
\* entry there is at most the producer that created the entry).
C4_AsStated ==
    [][\A k \in Keys : cache[k] # 0 => ~StartsProducer(k)]_vars

\* C4 amended: no producer is started for a key in a step taken while the
\* store holds a Pending, Succeeded or Cancelled entry for that key; a
\* producer is started only when the store holds no entry for the key or a
\* Failed one.
C4_OneProducerPerEntry ==
    [][\A k \in Keys :
          (cache[k] # 0 /\ fut[cache[k]] # "error") => ~StartsProducer(k)]_vars

\* Both callers called with the same key, the second while the entry was
\* held, and one producer was started.
C4_Witness ==
    \E c1, c2 \in Callers :
        /\ how[c1] = "start" /\ c1 # c2 /\ ckey[c1] = ckey[c2]
        /\ found[c2] = src[c1] /\ how[c2] \in {"join", "hit"}
        /\ ncomp = 1

(***************************************************************************)
(* C5  Cache hit                                                           *)
(***************************************************************************)
\* C5: a call whose lookup finds a Succeeded entry returns that entry's
\* value in the same step (it is never suspended), starts no producer and
\* leaves the store's mapping, the tasks and the futures unchanged.
C5_CacheHit ==
    [][\A c \in Callers :
          (CallStep(c) /\ cache[ckey'[c]] # 0 /\ fut[cache[ckey'[c]]] = "value") =>
              /\ pc'[c] = "done"
              /\ res'[c] = "value"
              /\ src'[c] = cache[ckey'[c]]
              /\ ncomp' = ncomp
              /\ cache' = cache /\ task' = task /\ fut' = fut]_vars

\* A call was served from a Succeeded entry.
C5_Witness ==
    \E c \in Callers :
        /\ fstate[c] = "value" /\ how[c] = "hit"
        /\ Returned(c) /\ res[c] = "value" /\ ncomp = 1

(***************************************************************************)
(* C6  Failure replay                                                      *)
(***************************************************************************)
\* C6: when the producer of a SharedComputation raised, its future is
\* Failed once resolved, and every caller that awaited it (starter or
\* joiner) and was not cancelled itself receives the error.
C6_FailureReplay ==
    \A j \in Comps :
        task[j] = "error" =>
            /\ fut[j] \in {"pending", "error"}
            /\ \A c \in Callers :
                  (Awaited(c, j) /\ Returned(c) /\ ~SelfCancelled(c))
                      => res[c] = "error"

\* One failed producer, its starter and its joiner both got the error.
C6_Witness ==
    \E c1, c2 \in Callers :
        /\ how[c1] = "start" /\ how[c2] = "join" /\ src[c2] = src[c1]
        /\ task[src[c1]] = "error" /\ ncomp = 1
        /\ res[c1] = "error" /\ res[c2] = "error"

(***************************************************************************)
(* C7  A Failed entry is not a hit                                         *)
(***************************************************************************)
C7_Inv ==
    \A c \in Callers :
        fstate[c] = "error" =>
            /\ how[c] = "start"
            /\ src[c] # found[c]
            /\ task[src[c]] # "none"
            /\ (Returned(c) /\ ~SelfCancelled(c)) => res[c] = task[src[c]]

C7_Step ==
    \A c \in Callers :
        (CallStep(c) /\ cache[ckey'[c]] # 0 /\ fut[cache[ckey'[c]]] = "error") =>
            /\ ncomp' = ncomp + 1
            /\ src'[c] = ncomp'
            /\ task'[ncomp'] = "running"
            /\ \/ cache'[ckey'[c]] = ncomp'
               \/ ncomp' \in rejected' /\ cache' = cache

\* C7: a call whose lookup finds a Failed entry starts a new producer,
\* writes the new SharedComputation over the failed one (unless the store
\* refuses the write) and returns the new producer's outcome.
C7_FailedIsMiss == []C7_Inv /\ [][C7_Step]_vars

\* A call found a Failed entry, ran a second producer and returned its
\* value, which the store now holds in place of the failed one.
C7_Witness ==
    \E c \in Callers :
        /\ fstate[c] = "error" /\ how[c] = "start"
        /\ Returned(c) /\ res[c] = "value"
        /\ fut[found[c]] = "error"
        /\ cache[ckey[c]] = src[c] /\ ncomp = 2

(***************************************************************************)
(* C8  A Cancelled entry is not a hit                                      *)
(***************************************************************************)
\* C8: a call whose lookup finds a Cancelled entry starts a new producer
\* and returns the new producer's outcome, not the stale cancellation.
C8_CancelledIsMiss ==
    \A c \in Callers :
        fstate[c] = "cancelled" =>
            /\ how[c] = "start"
            /\ src[c] # found[c]
            /\ (Returned(c) /\ ~SelfCancelled(c)) => res[c] = task[src[c]]

(***************************************************************************)
(* C9  Producer cancellation                                               *)
(***************************************************************************)
\* C9: when the runtime cancelled the producer task, the future is
\* Cancelled once resolved, and every caller that awaited it has, once
\* returned, observed a cancellation and never a value or an error.
C9_ProducerCancelled ==
    \A j \in Comps :
        task[j] = "cancelled" =>
            /\ fut[j] \in {"pending", "cancelled"}
            /\ \A c \in Callers :
                  (Awaited(c, j) /\ Returned(c))
                      => res[c] \in {"cancelled", "ccancel"}

\* The producer was cancelled and its starter and joiner both observed the
\* cancellation of the SharedComputation.
C9_Witness ==
    \E c1, c2 \in Callers :
        /\ how[c1] = "start" /\ how[c2] = "join" /\ src[c2] = src[c1]
        /\ task[src[c1]] = "cancelled" /\ fut[src[c1]] = "cancelled"
        /\ res[c1] = "cancelled" /\ res[c2] = "cancelled"

(***************************************************************************)
(* C10  Store-write guard                                                  *)
(***************************************************************************)
\* The caller of a refused publish gets the producer's outcome, and the
\* refused SharedComputation is never in the store.
C10_Inv ==
    \A j \in rejected :
        /\ task[j] # "none"
        /\ \A k \in Keys : cache[k] # j
        /\ \A c \in Callers :
              (how[c] = "start" /\ src[c] = j) =>
                  /\ pc[c] \in {"waiting", "done"}
                  /\ res[c] \in {"none", "value", "error", "cancelled", "ccancel"}
                  /\ pc[c] = "waiting" <=> res[c] = "none"
                  /\ (Returned(c) /\ ~SelfCancelled(c)) => res[c] = task[j]

\* This step is a call by c whose publish the store refuses.
RefusedPublish(c) == CallStep(c) /\ ncomp' \in rejected' \ rejected

C10_Step ==
    \A c \in Callers :
        RefusedPublish(c) =>
            /\ pc'[c] = "waiting" /\ task'[ncomp'] = "running"
            /\ src'[c] = ncomp'
            /\ cache' = cache
            /\ cache[ckey'[c]] # 0 => fut[cache[ckey'[c]]] = "error"

ClearStep ==
    \E j \in Comps : gone[j] = NotGone /\ gone'[j] \in {"clear", "clear-pending"}

\* Caller d started computation j (for the key ckey[d]).
Started(d, j) == how[d] = "start" /\ src[d] = j

\* This call of caller c re-executes the wrapped function: one new producer
\* is started, the caller is bound to it and suspended on its outcome.
ReExecutes(c) ==
    /\ ncomp' = ncomp + 1
    /\ src'[c] = ncomp'
    /\ how'[c] = "start"
    /\ task'[ncomp'] = "running"
    /\ pc'[c] = "waiting"

(***************************************************************************)
(* C11  cache_clear                                                        *)
(***************************************************************************)
C11_Inv ==
    \A j \in Comps :
        gone[j] \in {"clear", "clear-pending"} => \A k \in Keys : cache[k] # j

C11_Step ==
    /\ ClearStep => (\A k \in Keys : cache'[k] = 0) /\ order' = <<>>
    /\ \A c \in Callers :
          CallStep(c) =>
              /\ \A d \in Callers :
                    (how[d] = "start" /\ ckey[d] = ckey'[c]
                        /\ gone[src[d]] \in {"clear", "clear-pending"})
                        => src'[c] # src[d]
              /\ cache[ckey'[c]] = 0 => ReExecutes(c)

\* C11: after cache_clear() the store holds no entry and never holds a
\* cleared computation again; a call whose key has no entry in the store (the
\* next call with previously cached arguments after the clear) starts one new
\* producer, and no call made after the clear is bound to a computation the
\* clear removed.
C11_ClearThenRerun == []C11_Inv /\ [][C11_Step]_vars

\* A value was cached, the store was cleared, and the next call with the same
\* key found no entry and started a second producer.
C11_Witness ==
    \E c1, c2 \in Callers :
        /\ Started(c1, src[c1]) /\ gone[src[c1]] = "clear"
        /\ src[c1] \notin rejected /\ fut[src[c1]] = "value"
        /\ ckey[c2] = ckey[c1] /\ found[c2] = 0
        /\ Started(c2, src[c2]) /\ src[c2] > src[c1]

(***************************************************************************)
(* C12  cache_clear while a computation is Pending                         *)
(***************************************************************************)
C12_Inv ==
    \A j \in Comps :
        gone[j] = "clear-pending" =>
            /\ TrueOutcome(j)
            /\ \A c \in Callers :
                  (Awaited(c, j) /\ Returned(c) /\ ~SelfCancelled(c))
                      => res[c] = task[j]

C12_Step ==
    ClearStep => UNCHANGED <<task, fut, pc, src, how, res>>

\* C12: a cache_clear() that removes the entry of a Pending computation
\* changes no producer, no future and no caller; the producer keeps running
\* and every caller that awaited the computation (all of them joined before
\* the clear) receives the producer's own outcome.
C12_ClearKeepsInFlight == []C12_Inv /\ [][C12_Step]_vars

\* The store was cleared while a starter and a joiner awaited a Pending
\* computation, and both later received its value.
C12_Witness ==
    \E c1, c2 \in Callers :
        /\ Started(c1, src[c1]) /\ how[c2] = "join" /\ src[c2] = src[c1]
        /\ gone[src[c1]] = "clear-pending"
        /\ Returned(c1) /\ Returned(c2) /\ res[c1] = "value" /\ res[c2] = "value"

(***************************************************************************)
(* C13  Expiry                                                             *)
(***************************************************************************)
C13_Inv ==
    \A j \in Comps : gone[j] = "expire" => \A k \in Keys : cache[k] # j

C13_Step ==
    \A c \in Callers :
        CallStep(c) =>
            LET k == ckey'[c]
            IN  /\ \A d \in Callers :
                      (how[d] = "start" /\ ckey[d] = k /\ gone[src[d]] = "expire")
                          => src'[c] # src[d]
                /\ cache[k] = 0 => ReExecutes(c)
                /\ (cache[k] # 0 /\ fut[cache[k]] = "value") =>
                      /\ how'[c] = "hit" /\ src'[c] = cache[k]
                      /\ res'[c] = "value" /\ ncomp' = ncomp

\* C13: once the store has expired the entry of a key, a call with that key
\* is never bound to the stale computation, and the next such call finds no
\* entry and starts a new producer; a call made while the unexpired entry
\* holds a value (before the expiry) returns that value and starts nothing.
C13_Expiry == []C13_Inv /\ [][C13_Step]_vars

\* A value was cached, its entry expired, and the next call with the same key
\* found no entry and started a second producer.
C13_Witness ==
    \E c1, c2 \in Callers :
        /\ Started(c1, src[c1]) /\ gone[src[c1]] = "expire"
        /\ fut[src[c1]] = "value"
        /\ ckey[c2] = ckey[c1] /\ found[c2] = 0
        /\ Started(c2, src[c2]) /\ src[c2] > src[c1]

(***************************************************************************)
(* C14  Capacity eviction and in-flight computations                       *)
(***************************************************************************)
\* C14 as stated: no step evicts for capacity the entry of a computation
\* that is still Pending and awaited by a suspended caller.
C14_NoInFlightEviction ==
    [][\A j \in Comps :
          (gone[j] = NotGone /\ gone'[j] = "evict") =>
              ~(fut[j] = "pending"
                  /\ \E c \in Callers : Awaited(c, j) /\ pc[c] = "waiting")]_vars

(***************************************************************************)
(* C15  Size limit                                                         *)
(***************************************************************************)
C15_Inv ==
    /\ Cardinality({k \in Keys : cache[k] # 0}) <= maxsize
    /\ Len(order) <= maxsize
    /\ \A k \in Keys : cache[k] # 0 <=> \E i \in 1..Len(order) : order[i] = k

C15_Step ==
    \A c \in Callers :
        LET k == ckey'[c]
        IN  (CallStep(c) /\ cache[k] = 0 /\ cache'[k] # 0 /\ Len(order) = maxsize) =>
                /\ cache'[Head(order)] = 0
                /\ gone'[cache[Head(order)]] = "evict"
                /\ \A h \in Keys \ {k, Head(order)} : cache'[h] = cache[h]
                /\ order' = Append(Tail(order), k)

Derived == key # NoKey

\* The call supplies parameter p or its declaration gives it a default.
Binds(nd, a, kw, p) ==
    p <= Len(a) \/ p \in DOMAIN kw \/ p > Len(parameters) - nd

\* The call binds every declared parameter: the function accepts it.
Complete(nd, a, kw) == \A p \in Positions : Binds(nd, a, kw, p)

\* The value parameter p has in a call that binds it.
ValueOf(a, kw, p) ==
    IF p <= Len(a) THEN a[p]
    ELSE IF p \in DOMAIN kw THEN kw[p]
    ELSE DefaultValue

\* Python's `==` on two argument values: same kind and same content.
ValEq(v, w) == v[1] = w[1] /\ v[2] = w[2]

\* Parameter p is listed in `ignore`, by its name or by its index.
Listed(p) == parameters[p] \in ignore.str \/ (p - 1) \in ignore.int

\* The call with the value of parameter p replaced by v.
ArgsWith(p, v) == IF p <= Len(args) THEN [args EXCEPT ![p] = v] ELSE args

KwargsWith(p, v) ==
    IF p <= Len(args) THEN kwargs
    ELSE [q \in (DOMAIN kwargs) \cup {p} |-> IF q = p THEN v ELSE kwargs[q]]

KeyWith(p, v) ==
    filtered_key(key_func, ndefaults, ignore, ArgsWith(p, v), KwargsWith(p, v))

IncludedEqual(a1, kw1, a2, kw2) ==
    \A p \in Positions :
        ~Listed(p) =>
            /\ Binds(ndefaults, a1, kw1, p) <=> Binds(ndefaults, a2, kw2, p)
            /\ Binds(ndefaults, a1, kw1, p)
                  => ValEq(ValueOf(a1, kw1, p), ValueOf(a2, kw2, p))

\* The included parameters of the call have hashable values.
HashableIncluded(a, kw) ==
    \A p \in Positions :
        (~Listed(p) /\ Binds(ndefaults, a, kw, p)) => ValueOf(a, kw, p) \in Hashables

\* Under `methodkey` the two calls are calls on one receiver (the same
\* first argument), which is not itself listed in `ignore`.
SameReceiver(a2, kw2) ==
    key_func = "methodkey" =>
        ~Listed(1) /\ ValueOf(a2, kw2, 1) = ValueOf(args, kwargs, 1)

\* C17 as stated: for every two calls of one wrapped function (calls the
\* function accepts; under `methodkey`, calls on one receiver) the keys are
\* equal if and only if the values of all non-ignored parameters, after
\* binding and applying defaults, are equal.
C17_AsStated ==
    (Derived /\ Complete(ndefaults, args, kwargs)) =>
        \A c2 \in Calls :
            (Complete(ndefaults, c2[1], c2[2]) /\ SameReceiver(c2[1], c2[2])) =>
                ((filtered_key(key_func, ndefaults, ignore, c2[1], c2[2]) = key)
                    <=> IncludedEqual(args, kwargs, c2[1], c2[2]))

\* C17 amended: the same, for calls whose non-ignored parameters have
\* hashable values.
C17_KeyIsIncludedArguments ==
    (Derived /\ Complete(ndefaults, args, kwargs) /\ HashableIncluded(args, kwargs)) =>
        \A c2 \in Calls :
            (/\ Complete(ndefaults, c2[1], c2[2]) /\ SameReceiver(c2[1], c2[2])
             /\ HashableIncluded(c2[1], c2[2])) =>
                ((filtered_key(key_func, ndefaults, ignore, c2[1], c2[2]) = key)
                    <=> IncludedEqual(args, kwargs, c2[1], c2[2]))

\* A call `f(2)` that omits the defaulted b derived the key of `f(a=2, b=1)`,
\* which passes the default explicitly and by keyword, and not the key of
\* `f(2, 2)`.
C17_Witness ==
    /\ key_func = "hashkey" /\ ndefaults = 1 /\ ignore = [str |-> {}, int |-> {}]
    /\ args = << <<"h", 2>> >> /\ kwargs = <<>>
    /\ key = filtered_key(key_func, ndefaults, ignore, <<>>,
                          [q \in Positions |-> IF q = 1 THEN <<"h", 2>> ELSE DefaultValue])
    /\ key # filtered_key(key_func, ndefaults, ignore, << <<"h", 2>>, <<"h", 2>> >>, <<>>)

(***************************************************************************)
(* C18  Method keys                                                        *)
(***************************************************************************)
\* C18 as stated: under `methodkey`, for every ignore-set, two calls on the
\* same instance (the same first argument) that differ in the hashable value
\* of a parameter not listed in `ignore` derive different keys.
C18_MethodKeyDistinct ==
    (/\ Derived /\ key_func = "methodkey"
     /\ Complete(ndefaults, args, kwargs) /\ HashableIncluded(args, kwargs)) =>
        \A p \in Positions \ {1} :
            ~Listed(p) =>
                \A v \in Hashables :
                    ~ValEq(v, ValueOf(args, kwargs, p)) => KeyWith(p, v) # key

(***************************************************************************)
(* C19  Name- and index-based ignores                                      *)
(***************************************************************************)
\* C19 as stated: for every call, the key derived with a parameter ignored
\* by its zero-based index in declaration order, alone or together with its
\* name, is the key derived with the parameter ignored by its name.
C19_IndexAsName ==
    Derived =>
        \A p \in Positions :
            (ignore.int = {p - 1} /\ ignore.str \subseteq {parameters[p]}) =>
                key = filtered_key(key_func, ndefaults,
                                   [str |-> {parameters[p]}, int |-> {}], args, kwargs)

(***************************************************************************)
(* C20  TokenCache expiry                                                  *)
(***************************************************************************)
\* The entry is expired at time t: its `expires_at` is at or before t.
Expired(e, t) == e # None /\ e.expires_at <= t

C20_Inv ==
    /\ tres.op = "get" =>
          /\ Expired(tres.seen, tres.at) => tres.value = None
          /\ (tres.seen # None /\ ~Expired(tres.seen, tres.at)) => tres.value = tres.seen
    /\ (tres.op = "get_token" /\ Expired(tres.seen, tres.at)) =>
          tres.fetched /\ tres.value.token = <<"access_token", nfetch>>
    /\ (tpc = "fetching" /\ Expired(treq.seen, treq.at)) => tstore[treq.key] = None

C20_Step ==
    /\ \A k \in TokenTypes :
          TokenCacheGet(k) =>
              /\ Expired(tstore[k], tnow) => tstore'[k] = None
              /\ ~Expired(tstore[k], tnow) => tstore'[k] = tstore[k]
    /\ \A tt \in TokenTypes :
          (get_token(tt, FALSE) /\ Expired(tstore[tt], tnow)) =>
              tstore'[tt] = None /\ tpc' = "fetching"

\* C20: TokenCache.get(key) on a stored entry whose expires_at is at or
\* before the current time returns None and removes the entry; on an entry
\* whose expires_at is in the future it returns the entry unchanged and
\* leaves it in the store; a get_token that finds the expired entry removes
\* it, fetches, and returns the newly fetched token.
C20_TokenExpiry == []C20_Inv /\ [][C20_Step]_<<vars, aux>>

\* A get_token stored a token, time passed its expires_at, and the next
\* get_token for that key saw the expired entry and returned a second, newly
\* fetched token.
C20_Witness ==
    /\ tres.op = "get_token" /\ tres.key = "access" /\ tres.fetched
    /\ tres.seen # None /\ tres.seen.token = <<"access_token", 1>>
    /\ tres.seen.expires_at > 1 /\ tres.seen.expires_at <= tres.at
    /\ tres.value.token = <<"access_token", 2>>

(***************************************************************************)
(* C21  Completion propagation                                             *)
(***************************************************************************)
\* The terminal states of a task and of a future.
Terminal == {"value", "error", "cancelled"}

C21_Inv ==
    \A j \in Comps :
        /\ (j <= ncomp) <=> task[j] # "none"
        /\ (j <= ncomp) <=> fut[j] # "none"
        /\ fut[j] \in Terminal => fut[j] = task[j]

C21_Step ==
    \A j \in Comps :
        /\ fut[j] \in Terminal => fut'[j] = fut[j]
        /\ task[j] \in Terminal => task'[j] = task[j]
        /\ (fut[j] = "pending" /\ fut'[j] # "pending") =>
              /\ task[j] \in Terminal
              /\ fut'[j] = task[j]
              /\ \A i \in Comps \ {j} : fut'[i] = fut[i]

\* C21: every SharedComputation is created together with its one producer
\* task; its future leaves Pending in one step, taken after the task has
\* terminated, and becomes the task's outcome (value, error or cancellation);
\* once terminal, neither the future nor the task changes again in any later
\* step (call, cancellation, clear, expiry or eviction).
C21_PropagatedOnce == []C21_Inv /\ [][C21_Step]_vars

\* A failed computation was retried and overwritten, the retry succeeded and
\* its entry was cleared: both futures still hold their producers' outcomes.
C21_Witness ==
    \E j1, j2 \in Comps :
        /\ fut[j1] = "error" /\ task[j1] = "error" /\ gone[j1] = "overwrite"
        /\ fut[j2] = "value" /\ task[j2] = "value" /\ gone[j2] = "clear"

(***************************************************************************)
(* C22  Binding errors                                                     *)
(***************************************************************************)
\* This step is a call by c whose arguments the signature rejects.
BindingErrorStep(c) == pc[c] = "idle" /\ how'[c] = "bind"

C22_Inv ==
    \A c \in Callers :
        how[c] = "bind" =>
            /\ Returned(c) /\ res[c] = "TypeError"
            /\ src[c] = 0 /\ ckey[c] = 0 /\ found[c] = 0

C22_Step ==
    \A c \in Callers :
        BindingErrorStep(c) =>
            /\ pc'[c] = "done" /\ res'[c] = "TypeError"
            /\ UNCHANGED <<cache, order, gone, ncomp, task, fut, rejected>>

Unsupported == deco.info \/ deco.lock

C23_Inv ==
    /\ (deco.stage # "none" /\ Unsupported) =>
          /\ deco.stage = "rejected" /\ deco.error = "NotImplementedError"
          /\ key = NoKey /\ ndefaults = 0 /\ ignore = [str |-> {}, int |-> {}]
    /\ ~Unsupported => deco.error # "NotImplementedError"
    /\ deco.stage \in {"created", "wrapped"} => deco.error = "none"
    /\ key.error # "NotImplementedError"

C23_Step ==
    /\ deco.stage = "rejected" => UNCHANGED <<deco, kvars>>
    /\ deco'.error # deco.error => deco.stage \in {"none", "created"}
    /\ (deco'.error = "NotImplementedError" /\ deco.error = "none") => deco.stage = "none"

\* C23: a factory call with `info` true (cached) or a non-null `lock`
\* (cached, cachedmethod) raises NotImplementedError in the factory call
\* itself: no decorator is returned, so no function is wrapped and no call is
\* made; without these options the factory never raises it, and neither the
\* wrapping of a function nor any wrapped call raises it.
C23_Unsupported == []C23_Inv /\ [][C23_Step]_<<vars, aux>>

\* `cachedmethod(lock=...)` was rejected at decoration time.
C23_Witness ==
    /\ deco.factory = "cachedmethod" /\ deco.lock
    /\ deco.stage = "rejected" /\ deco.error = "NotImplementedError"
    /\ key = NoKey

(***************************************************************************)
(* C24  Two live producers of one key                                      *)
(***************************************************************************)
\* The computations started for key k whose publish the store accepted.
PublishedFor(k) ==
    {j \in Comps : j \notin rejected /\ \E c \in Callers : Started(c, j) /\ ckey[c] = k}

\* The last of them (computations are numbered in the order of their start,
\* and a computation is published in the step that starts it).
LastPublished(k) ==
    IF PublishedFor(k) = {} THEN 0
    ELSE CHOOSE j \in PublishedFor(k) : \A i \in PublishedFor(k) : i <= j

C24_Inv ==
    /\ \A k \in Keys : cache[k] # 0 => cache[k] = LastPublished(k)
    /\ \A c \in Callers :
          (how[c] \in {"start", "join"} /\ Returned(c) /\ ~SelfCancelled(c))
              => res[c] = task[src[c]]

C24_Step ==
    /\ \A c \in Callers :
          (CallStep(c) /\ ncomp' = ncomp + 1) =>
              /\ ncomp' \notin rejected' => cache'[ckey'[c]] = ncomp'
              /\ \A j \in 1..ncomp : task'[j] = task[j] /\ fut'[j] = fut[j]
              /\ \A d \in Callers \ {c} : src'[d] = src[d] /\ pc'[d] = pc[d]
    /\ (task' # task \/ fut' # fut) => (cache' = cache \/ ncomp' = ncomp + 1)

\* C24: when a second producer is started for a key whose first producer is
\* still running, the start leaves the first task, its future and the callers
\* bound to it untouched and, unless the store refuses the write, puts the
\* new SharedComputation into the store; no completion of a task or of a
\* future writes the store, so the entry of a key is always the computation
\* published last for it; every caller receives the outcome of the producer
\* it started or joined.
C24_LastWriteWins == []C24_Inv /\ [][C24_Step]_vars

\* Two producers of one key are running at once: the entry of the first was
\* cleared while it was Pending, the second was started and holds the slot.
C24_Witness ==
    \E c1, c2 \in Callers :
        /\ ckey[c1] = ckey[c2] /\ Started(c1, src[c1]) /\ Started(c2, src[c2])
        /\ src[c1] < src[c2] /\ gone[src[c1]] = "clear-pending"
        /\ task[src[c1]] = "running" /\ task[src[c2]] = "running"
        /\ pc[c1] = "waiting" /\ pc[c2] = "waiting"
        /\ cache[ckey[c2]] = src[c2]

(***************************************************************************)
(* C25  Check-then-publish                                                 *)
(***************************************************************************)
\* Callers c1 and c2 both found no entry for one key and both started a
\* producer, c1 first.
BothMissed(c1, c2) ==
    /\ c1 # c2 /\ ckey[c1] # 0 /\ ckey[c1] = ckey[c2]
    /\ found[c1] = 0 /\ found[c2] = 0
    /\ how[c1] = "start" /\ how[c2] = "start" /\ src[c1] < src[c2]

\* C25 as stated: two callers both observe a miss for one key and both start
\* a producer only if the entry of the first was removed from the store
\* between their calls.
C25_AsStated ==
    \A c1, c2 \in Callers : BothMissed(c1, c2) => gone[src[c1]] # NotGone

C25_Inv ==
    /\ \A c1, c2 \in Callers :
          BothMissed(c1, c2) => (gone[src[c1]] # NotGone \/ src[c1] \in rejected)
    /\ \A c \in Callers :
          how[c] = "start" =>
              \/ cache[ckey[c]] = src[c]
              \/ src[c] \in rejected
              \/ gone[src[c]] # NotGone

C25_Step ==
    \A c \in Callers :
        (CallStep(c) /\ (cache[ckey'[c]] = 0 \/ fut[cache[ckey'[c]]] = "error")) =>
            /\ ncomp' = ncomp + 1 /\ src'[c] = ncomp'
            /\ cache'[ckey'[c]] = ncomp' \/ ncomp' \in rejected'

\* C25 amended: a call that finds no entry or a Failed one creates and
\* publishes its SharedComputation in the step of its lookup, so no caller is
\* ever between its lookup and its publish; two callers both observe a miss
\* for one key and both start a producer only if the entry of the first was
\* removed from the store between their calls (cleared, expired, evicted) or
\* the store refused to admit it.
C25_CheckThenPublish == []C25_Inv /\ [][C25_Step]_vars

\* The store refused the first caller's publish, so the second caller of the
\* key also found no entry and started a second producer, which holds the
\* slot, while the first producer is still running.
C25_Witness ==
    \E c1, c2 \in Callers :
        /\ BothMissed(c1, c2) /\ src[c1] \in rejected
        /\ task[src[c1]] = "running" /\ pc[c1] = "waiting"
        /\ cache[ckey[c2]] = src[c2]

(***************************************************************************)
(* C26  No orphan Pending entry                                            *)
(***************************************************************************)
\* C26 as stated: the producer task of every Pending SharedComputation is
\* still running.
C26_AsStated ==
    \A j \in Comps : fut[j] = "pending" => task[j] = "running"

\* C26 amended: every Pending SharedComputation, in the store or not, has its
\* one producer task, which is still running or has terminated with its
\* done-callback, which resolves the future, still to run; every entry of
\* the store is a SharedComputation that was started.
C26_NoOrphanPending ==
    /\ \A j \in Comps :
          fut[j] = "pending" =>
              /\ task[j] \in {"running"} \cup Terminal
              /\ task[j] \in Terminal => ENABLED DoneCallback(j)
    /\ \A k \in Keys : cache[k] # 0 => (cache[k] <= ncomp /\ fut[cache[k]] # "none")

\* The producer of a Pending entry of the store has returned and its
\* done-callback has not run yet; a second caller has joined the entry.
C26_Witness ==
    \E c1, c2 \in Callers :
        /\ Started(c1, src[c1]) /\ cache[ckey[c1]] = src[c1]
        /\ fut[src[c1]] = "pending" /\ task[src[c1]] = "value"
        /\ how[c2] = "join" /\ src[c2] = src[c1] /\ pc[c2] = "waiting"

(***************************************************************************)
(* C27  Every call returns                                                 *)
(***************************************************************************)
\* What a call of the wrapper ends with.
Outcomes == {"value", "error", "cancelled", "ccancel", "TypeError"}

\* C27: when every started producer terminates and the event loop runs the
\* scheduled callbacks and resumes the callers whose future is resolved, every
\* caller suspended in the wrapper eventually returns, with a value, the
\* producer's error or a cancellation, whether or not the entry it awaits
\* was cleared, evicted, expired or overwritten meanwhile.
C27_EveryCallReturns ==
    \A c \in Callers :
        (pc[c] = "waiting") ~> (pc[c] = "done" /\ res[c] \in Outcomes)

\* A caller joined a computation whose entry then expired and whose producer
\* was cancelled; the joiner and the starter both returned the cancellation.
C27_Witness ==
    \E c1, c2 \in Callers :
        /\ Started(c1, src[c1]) /\ how[c2] = "join" /\ src[c2] = src[c1]
        /\ gone[src[c1]] = "expire" /\ task[src[c1]] = "cancelled"
        /\ Returned(c1) /\ Returned(c2)
        /\ res[c1] = "cancelled" /\ res[c2] = "cancelled"

(***************************************************************************)
(* C28  Prefetch window                                                    *)
(***************************************************************************)
\* The entry is usable at time t: it expires more than prefetch_seconds
\* after t.
Usable(e, t) == e # None /\ e.expires_at - t > prefetch_seconds

\* This step is the token endpoint's answer to the pending get_token.
FetchedStep == tpc = "fetching" /\ nfetch' = nfetch + 1

C28_Inv ==
    (tres.op = "get_token" /\ ~tres.fetched) =>
        /\ Usable(tres.seen, tres.at)
        /\ ~Expired(tres.seen, tres.at)
        /\ tres.value.token = tres.seen.token
        /\ tres.value.expires_at = tres.seen.expires_at

C28_Step ==
    /\ \A tt \in TokenTypes :
          get_token(tt, FALSE) =>
              IF Usable(tstore[tt], tnow)
              THEN /\ tpc' = "idle" /\ ~tres'.fetched /\ tres'.key = tt
                   /\ tres'.value.token = tstore[tt].token
                   /\ tstore' = tstore
              ELSE tpc' = "fetching" /\ treq'.key = tt /\ tres' = tres
    /\ FetchedStep =>
          /\ tres'.fetched /\ tres'.key = treq.key
          /\ tres'.value.token = <<"access_token", nfetch'>>
          /\ tstore'[treq.key].token = <<"access_token", nfetch'>>
          /\ tstore'[treq.key].expires_at = tres'.value.expires_at

\* C28: get_token without force_refresh returns the stored entry only when
\* its expires_at minus the current time is greater than prefetch_seconds;
\* otherwise it goes to the token endpoint, and the answer replaces the
\* stored entry of the key and is what the call returns; no result served
\* from the store is expired or inside the prefetch window.
C28_PrefetchWindow == []C28_Inv /\ [][C28_Step]_<<vars, aux>>

\* The stored token had not expired but was inside the prefetch window: the
\* call fetched a second token and returned it.
C28_Witness ==
    /\ tres.op = "get_token" /\ tres.fetched /\ tres.key = "access"
    /\ tres.seen # None /\ ~Expired(tres.seen, tres.at) /\ ~Usable(tres.seen, tres.at)
    /\ tres.value.token = <<"access_token", 2>>
    /\ tstore["access"].token = <<"access_token", 2>>

(***************************************************************************)
(* C29  No refresh token in an access result                               *)
(***************************************************************************)
\* C29: a get_token for token type "access" never returns a refresh_token
\* field, from the store or from a fetch.
C29_AccessWithoutRefreshToken ==
    (tres.op = "get_token" /\ tres.key = "access") => tres.value.refresh_token = NoToken

\* An access token was served from a stored entry that holds the refresh
\* token the endpoint had supplied; the result has none.
C29_Witness ==
    /\ tres.op = "get_token" /\ tres.key = "access" /\ ~tres.fetched
    /\ tstore["access"].refresh_token # NoToken
    /\ tres.value.token = tstore["access"].token
    /\ tres.value.refresh_token = NoToken

(***************************************************************************)
(* C30  Fields of a refresh result                                         *)
(***************************************************************************)
\* C30 as stated: a get_token for token type "refresh" returns the fields of
\* the entry stored for the key, whether served from the store or from a
\* fetch: token, payload, expires_at and, when the endpoint supplied one, the
\* refresh_token.
C30_RefreshFields ==
    (/\ tres.op = "get_token" /\ tres.key = "refresh"
     /\ tstore["refresh"] # None
     /\ tstore["refresh"].token = tres.value.token) =>
        tres.value.refresh_token = tstore["refresh"].refresh_token

====
